---------------------------- MODULE Spec2Model ----------------------------
(***************************************************************************)
(* PDF mark-up with Azure Document Intelligence results.                   *)
(*                                                                         *)
(* Two entry points run the same document pipeline:                        *)
(*   process_pdf       (src/api/function_app.py)                           *)
(*   mark_up_document  (src/python/markup_pdf.py)                          *)
(*                                                                         *)
(* Numbers.  Coordinates are integers of one fixed-point unit (the scale   *)
(* by 72 is a multiplication in that unit).  Confidences and colour        *)
(* components are in tenths: One stands for 1.0 and Half for 0.5.          *)
(* A JSON object is a function from field names; an absent field is a name *)
(* outside its DOMAIN, and dict.get(k, d) is Get(obj, k, d).               *)
(***************************************************************************)
EXTENDS Integers, Sequences, FiniteSets, TLC

VARIABLES
    entry,        \* which entry point runs: "process_pdf" | "mark_up_document"
    pdf_valid,    \* whether fitz.open accepts the source document
    page_count,   \* doc.page_count of the source document
    json_data,    \* the analysis input handed to the pipeline
    pc,           \* position of the run inside the entry point
    doc_open,     \* TRUE between fitz.open and doc.close()
    kv_pairs,     \* local kv_pairs
    colors,       \* local colors
    gen_calls,    \* arguments generate_distinct_colors was called with
    page_num,     \* loop variable page_num (0-based)
    drawn,        \* page.draw_rect calls issued so far, in order
    pending,      \* exception in flight towards the except clause
    output,       \* what doc.save wrote (BytesIO buffer or output file)
    result,       \* what the caller gets: a return value or an exception
    polygon,      \* Geometry Mapper input  (SpecGeom)
    rect          \* Geometry Mapper output (SpecGeom)

vars == <<entry, pdf_valid, page_count, json_data, pc, doc_open, kv_pairs,
          colors, gen_calls, page_num, drawn, pending, output, result,
          polygon, rect>>

pipeVars == <<entry, pdf_valid, page_count, json_data, pc, doc_open, kv_pairs,
              colors, gen_calls, page_num, drawn, pending, output, result>>

geomVars == <<polygon, rect>>

-----------------------------------------------------------------------------
(* Bounds of the model *)

MaxPages == 2
MaxCoord == 2
MaxPoints == 3

(* Program constants *)

PointsPerInch == 72
One == 10
Half == 5
BarGap == 2
bar_width == 2

-----------------------------------------------------------------------------
(* Python values *)

EmptyDict == [k \in {} |-> 0]

Get(obj, k, default) == IF k \in DOMAIN obj THEN obj[k] ELSE default

NoExc == [type |-> "None", msg |-> ""]
Exc(t, m) == [type |-> t, msg |-> m]

MinEmptyError == Exc("ValueError", "min() arg is an empty sequence")
KeyErrorAnalyzeResult == Exc("KeyError", "analyzeResult")
FileDataError == Exc("FileDataError", "cannot open document")
SaveError == Exc("RuntimeError", "cannot save document")
ZeroDivisionError == Exc("ZeroDivisionError", "division by zero")

\* points[0::2] and points[1::2]
EvenSlice(s) == [i \in 1..((Len(s) + 1) \div 2) |-> s[2 * i - 1]]
OddSlice(s) == [i \in 1..(Len(s) \div 2) |-> s[2 * i]]

\* builtin min and max of a non-empty sequence: a left-to-right scan
RECURSIVE MinScan(_, _, _)
MinScan(s, i, best) ==
    IF i > Len(s) THEN best
    ELSE MinScan(s, i + 1, IF s[i] < best THEN s[i] ELSE best)

RECURSIVE MaxScan(_, _, _)
MaxScan(s, i, best) ==
    IF i > Len(s) THEN best
    ELSE MaxScan(s, i + 1, IF s[i] > best THEN s[i] ELSE best)

min(s) == MinScan(s, 2, s[1])
max(s) == MaxScan(s, 2, s[1])

-----------------------------------------------------------------------------
(* Geometry Mapper: the rectangle of one bounding region's polygon *)

Rect(x0, y0, x1, y1) == [x0 |-> x0, y0 |-> y0, x1 |-> x1, y1 |-> y1]

NoRect == [exc |-> NoExc, set |-> FALSE, r |-> Rect(0, 0, 0, 0)]

ScalePoints(poly) == [i \in 1..Len(poly) |-> poly[i] * PointsPerInch]

\* a slip: the first and the last point taken for the corners
RectOfMutant(poly) ==
    LET points == ScalePoints(poly)
        xs == EvenSlice(points)
        ys == OddSlice(points)
    IN  IF xs = <<>> THEN [exc |-> MinEmptyError, set |-> FALSE, r |-> Rect(0, 0, 0, 0)]
        ELSE IF ys = <<>> THEN [exc |-> MinEmptyError, set |-> FALSE, r |-> Rect(0, 0, 0, 0)]
        ELSE [exc |-> NoExc, set |-> TRUE,
              r |-> Rect(xs[1], ys[1], xs[Len(xs)], ys[Len(ys)])]

\* The four arguments of fitz.Rect are evaluated left to right; min of an
\* empty slice raises ValueError before any rectangle exists.
RectOf(poly) ==
    LET points == ScalePoints(poly)
        xs == EvenSlice(points)
        ys == OddSlice(points)
    IN  IF xs = <<>> THEN [exc |-> MinEmptyError, set |-> FALSE, r |-> Rect(0, 0, 0, 0)]
        ELSE IF ys = <<>> THEN [exc |-> MinEmptyError, set |-> FALSE, r |-> Rect(0, 0, 0, 0)]
        ELSE [exc |-> NoExc, set |-> TRUE,
              r |-> Rect(min(xs), min(ys), max(xs), max(ys))]

\* fitz.Rect.height of a rectangle
Height(r) == IF r.y1 - r.y0 < 0 THEN r.y0 - r.y1 ELSE r.y1 - r.y0

-----------------------------------------------------------------------------
(* Confidence Colorizer *)

\* a slip: 1.0 - confidence * 2 for (1.0 - confidence) * 2
confidence_to_color_Mutant(confidence) ==
    IF confidence < Half
        THEN <<One, confidence * 2, 0>>
        ELSE <<One - confidence * 2, One, 0>>

confidence_to_color(confidence) ==
    IF confidence < Half
        THEN <<One, confidence * 2, 0>>
        ELSE <<(One - confidence) * 2, One, 0>>

\* a slip: the gap left out of the bar's right edge
bar_rect_Mutant(r) ==
    Rect(r.x1 + BarGap, r.y0, r.x1 + bar_width, r.y0 + Height(r))

bar_rect(r) ==
    Rect(r.x1 + BarGap, r.y0, r.x1 + BarGap + bar_width, r.y0 + Height(r))

-----------------------------------------------------------------------------
(* Color Generator.  A colour of a key-value pair is kept as the HSV triple *)
(* handed to colorsys.hsv_to_rgb: <<hue numerator, hue denominator,         *)
(* saturation, value>>, saturation and value in tenths.  The other colours  *)
(* are RGB triples in tenths.                                                *)

\* samples of the two random.uniform draws of one colour: <<saturation
\* jitter, value jitter>>
JitterSet == {<<-2, -1>>, <<2, 1>>}

\* hue = i / n
HueOf(i, n) ==
    [exc |-> IF n = 0 THEN ZeroDivisionError ELSE NoExc, num |-> i, den |-> n]

ColorsFrom(n, jit) ==
    [i \in 1..n |-> <<HueOf(i - 1, n).num, HueOf(i - 1, n).den,
                      7 + jit[i][1], 9 + jit[i][2]>>]

\* a slip: the hue step 1 / n computed before the loop
generate_distinct_colors_Mutant(n) ==
    IF HueOf(1, n).exc # NoExc
        THEN [exc |-> HueOf(1, n).exc, outs |-> {}]
        ELSE [exc |-> NoExc,
              outs |-> {ColorsFrom(n, jit) : jit \in [1..n -> JitterSet]}]

\* The loop body runs for i in range(n): with n = 0 no hue is computed and
\* the empty list is returned.
generate_distinct_colors(n) ==
    IF \E i \in 1..n : HueOf(i - 1, n).exc # NoExc
        THEN [exc |-> ZeroDivisionError, outs |-> {}]
        ELSE [exc |-> NoExc,
              outs |-> {ColorsFrom(n, jit) : jit \in [1..n -> JitterSet]}]

Navy == <<0, 0, 8>>
Gray == <<5, 5, 5>>
LightGray == <<9, 9, 9>>

-----------------------------------------------------------------------------
(* Annotation Renderer: the draw_rect calls of one page, in order.          *)
(* A result is [ops, exc]: the calls issued, and the exception that ended   *)
(* them (NoExc when none).                                                   *)

Ok(ops) == [ops |-> ops, exc |-> NoExc]
Raise(e) == [ops |-> <<>>, exc |-> e]

Then(a, b) ==
    IF a.exc # NoExc THEN a ELSE [ops |-> a.ops \o b.ops, exc |-> b.exc]

RECURSIVE Chain(_, _)
Chain(rs, i) == IF i > Len(rs) THEN Ok(<<>>) ELSE Then(rs[i], Chain(rs, i + 1))

Src(sec, i, c, part, j) == [sec |-> sec, i |-> i, c |-> c, part |-> part, j |-> j]

\* one page.draw_rect call: fill_opacity in percent (0: no fill), width in tenths
DrawRect(P, kind, r, color, fill_opacity, width, src) ==
    [page |-> P, kind |-> kind, rect |-> r, color |-> color,
     fill_opacity |-> fill_opacity, width |-> width, src |-> src]

\* a slip: the 1-based pageNumber compared with the 0-based page_num
PageMatchesMutant(region, pn) == region.pageNumber = pn

\* region['pageNumber'] == page_num + 1
PageMatches(region, pn) == region.pageNumber = pn + 1

draw_confidence_indicator(pn, r, confidence, src) ==
    <<DrawRect(pn + 1, "confidence_bar", bar_rect(r), confidence_to_color(confidence),
               100, 10, src)>>

KeyRegionOps(region, pn, color, src) ==
    IF ~PageMatches(region, pn) THEN Ok(<<>>)
    ELSE LET ro == RectOf(region.polygon)
         IN  IF ro.exc # NoExc THEN Raise(ro.exc)
             ELSE Ok(<<DrawRect(pn + 1, "key_fill", ro.r, color, 20, 10, src),
                       DrawRect(pn + 1, "key_border", ro.r, color, 0, 10, src)>>)

ValueRegionOps(region, pn, color, confidence, src) ==
    IF ~PageMatches(region, pn) THEN Ok(<<>>)
    ELSE LET ro == RectOf(region.polygon)
         IN  IF ro.exc # NoExc THEN Raise(ro.exc)
             ELSE Ok(<<DrawRect(pn + 1, "value_fill", ro.r, color, 10, 5, src),
                       DrawRect(pn + 1, "value_border", ro.r, color, 0, 5, src)>>
                     \o draw_confidence_indicator(pn, ro.r, confidence, src))

KeyOps(kv_pair, idx, pn, color) ==
    IF "key" \notin DOMAIN kv_pair THEN Ok(<<>>)
    ELSE LET regions == Get(kv_pair["key"], "boundingRegions", <<>>)
         IN  Chain([j \in 1..Len(regions) |->
                      KeyRegionOps(regions[j], pn, color, Src("kv", idx, 0, "key", j))], 1)

ValueOps(kv_pair, idx, pn, color) ==
    IF "value" \notin DOMAIN kv_pair THEN Ok(<<>>)
    ELSE LET regions == Get(kv_pair["value"], "boundingRegions", <<>>)
             confidence == Get(kv_pair, "confidence", Half)
         IN  Chain([j \in 1..Len(regions) |->
                      ValueRegionOps(regions[j], pn, color, confidence,
                                     Src("kv", idx, 0, "value", j))], 1)

\* colors[idx] in process_pdf, colors[idx % len(colors)] in mark_up_document
\* (idx is the 0-based index of enumerate)
ColorAt(e, cols, idx) ==
    IF e = "mark_up_document"
        THEN IF Len(cols) = 0 THEN [exc |-> ZeroDivisionError, c |-> <<>>]
             ELSE [exc |-> NoExc, c |-> cols[(idx % Len(cols)) + 1]]
        ELSE IF idx + 1 > Len(cols)
             THEN [exc |-> Exc("IndexError", "list index out of range"), c |-> <<>>]
             ELSE [exc |-> NoExc, c |-> cols[idx + 1]]

\* a slip: the value processed before the key
PairOpsMutant(e, cols, kv_pair, idx, pn) ==
    LET ca == ColorAt(e, cols, idx - 1)
    IN  IF ca.exc # NoExc THEN Raise(ca.exc)
        ELSE Then(ValueOps(kv_pair, idx, pn, ca.c), KeyOps(kv_pair, idx, pn, ca.c))

\* the body of "for idx, kv_pair in enumerate(kv_pairs)"; idx here is 1-based
PairOps(e, cols, kv_pair, idx, pn) ==
    LET ca == ColorAt(e, cols, idx - 1)
    IN  IF ca.exc # NoExc THEN Raise(ca.exc)
        ELSE Then(KeyOps(kv_pair, idx, pn, ca.c), ValueOps(kv_pair, idx, pn, ca.c))

KeyValueOps(e, cols, pairs, pn) ==
    Chain([idx \in 1..Len(pairs) |-> PairOps(e, cols, pairs[idx], idx, pn)], 1)

CellRegionOps(cell, region, pn, src) ==
    IF ~PageMatches(region, pn) THEN Ok(<<>>)
    ELSE LET ro == RectOf(region.polygon)
         IN  IF ro.exc # NoExc THEN Raise(ro.exc)
             ELSE IF Get(cell, "kind", "None") = "columnHeader"
                  THEN Ok(<<DrawRect(pn + 1, "header_fill", ro.r, Navy, 10, 10, src),
                            DrawRect(pn + 1, "header_border", ro.r, Navy, 0, 10, src)>>)
                  ELSE Ok(<<DrawRect(pn + 1, "cell_border", ro.r, Gray, 0, 5, src)>>)

CellOps(cell, t, c, pn) ==
    LET regions == Get(cell, "boundingRegions", <<>>)
    IN  Chain([j \in 1..Len(regions) |->
                 CellRegionOps(cell, regions[j], pn, Src("tables", t, c, "cell", j))], 1)

TableOps(table, t, pn) ==
    LET cells == Get(table, "cells", <<>>)
    IN  Chain([c \in 1..Len(cells) |-> CellOps(cells[c], t, c, pn)], 1)

TablesOps(analyze_result, pn) ==
    LET tables == Get(analyze_result, "tables", <<>>)
    IN  Chain([t \in 1..Len(tables) |-> TableOps(tables[t], t, pn)], 1)

ParagraphRegionOps(region, pn, src) ==
    IF ~PageMatches(region, pn) THEN Ok(<<>>)
    ELSE LET ro == RectOf(region.polygon)
         IN  IF ro.exc # NoExc THEN Raise(ro.exc)
             ELSE Ok(<<DrawRect(pn + 1, "paragraph_fill", ro.r, LightGray, 5, 3, src),
                       DrawRect(pn + 1, "paragraph_border", ro.r, Gray, 0, 3, src)>>)

ParagraphOps(para, i, pn) ==
    LET regions == Get(para, "boundingRegions", <<>>)
    IN  Chain([j \in 1..Len(regions) |->
                 ParagraphRegionOps(regions[j], pn, Src("paragraphs", i, 0, "paragraph", j))], 1)

ParagraphsOps(analyze_result, pn) ==
    LET paragraphs == Get(analyze_result, "paragraphs", <<>>)
    IN  Chain([i \in 1..Len(paragraphs) |-> ParagraphOps(paragraphs[i], i, pn)], 1)

-----------------------------------------------------------------------------
(* Inputs: the analysis results the pipeline is run on *)

Region(p, poly) == [pageNumber |-> p, polygon |-> poly]

EmptyPolygon == <<>>
PointPolygon == <<1, 2>>
QuadPolygon == <<0, 0, 1, 0, 1, 1, 0, 1>>
PolygonSet == {EmptyPolygon, PointPolygon, QuadPolygon}

RegionSet == {Region(p, poly) : p \in 1..MaxPages, poly \in PolygonSet}
PlainRegionSet == {Region(p, QuadPolygon) : p \in 1..MaxPages}

BoundingRegionsSet ==
    {<<>>} \cup {<<r>> : r \in RegionSet}
           \cup {<<r1, r2>> : r1 \in PlainRegionSet, r2 \in PlainRegionSet}

\* an object with an optional boundingRegions field
SpanSet == {EmptyDict} \cup {[boundingRegions |-> rs] : rs \in BoundingRegionsSet}
PlainSpanSet == {[boundingRegions |-> <<r>>] : r \in PlainRegionSet}

Field(present, k, v) == IF present THEN k :> v ELSE EmptyDict

ConfidenceSet == {2, Half, 9, One}

\* key-value pairs: one of key and value ranges over every span (or is
\* absent) while the other is plain or absent
KVPairSet ==
    {Field(hk, "key", k) @@ Field(hv, "value", v) @@ Field(hc, "confidence", c) :
        hk \in BOOLEAN, hv \in BOOLEAN, hc \in BOOLEAN,
        k \in SpanSet, v \in SpanSet, c \in ConfidenceSet}

IsPlainSpanField(obj, k) == k \notin DOMAIN obj \/ obj[k] \in PlainSpanSet

\* the confidence ranges over ConfidenceSet where key and value are both
\* plain or absent
VariedKVPairSet ==
    {kv \in KVPairSet :
        /\ IsPlainSpanField(kv, "key") \/ IsPlainSpanField(kv, "value")
        /\ \/ IsPlainSpanField(kv, "key") /\ IsPlainSpanField(kv, "value")
           \/ Get(kv, "confidence", 9) = 9}

PlainKVPairSet ==
    {kv \in KVPairSet : /\ "value" \in DOMAIN kv /\ "key" \in DOMAIN kv
                        /\ kv["key"] \in PlainSpanSet /\ kv["value"] \in PlainSpanSet
                        /\ "confidence" \notin DOMAIN kv}

KVCollectionSet ==
    {<<>>} \cup {<<kv>> : kv \in VariedKVPairSet}
           \cup {<<a, b>> : a \in PlainKVPairSet, b \in PlainKVPairSet}

CellSet ==
    {Field(hk, "kind", kind) @@ span :
        hk \in BOOLEAN, kind \in {"columnHeader", "content"}, span \in SpanSet}

PlainCellSet == {c \in CellSet : "kind" \in DOMAIN c /\ c \in
                    {("kind" :> c["kind"]) @@ span : span \in PlainSpanSet}}

TableSet ==
    {EmptyDict} \cup {[cells |-> <<>>]} \cup {[cells |-> <<c>>] : c \in CellSet}
                \cup {[cells |-> <<a, b>>] : a \in PlainCellSet, b \in PlainCellSet}

PlainTableSet == {[cells |-> <<c>>] : c \in PlainCellSet}

TableCollectionSet ==
    {<<>>} \cup {<<t>> : t \in TableSet}
           \cup {<<a, b>> : a \in PlainTableSet, b \in PlainTableSet}

ParagraphCollectionSet ==
    {<<>>} \cup {<<p>> : p \in SpanSet}
           \cup {<<a, b>> : a \in PlainSpanSet, b \in PlainSpanSet}

\* the collections the two sections that are not varied are drawn from
BackgroundKV == {<<[key |-> [boundingRegions |-> <<Region(1, QuadPolygon)>>],
                    value |-> [boundingRegions |-> <<Region(1, QuadPolygon)>>]]>>}
BackgroundTables == {<<[cells |-> <<[kind |-> "columnHeader",
                                     boundingRegions |-> <<Region(1, QuadPolygon)>>]>>]>>}
BackgroundParagraphs == {<<[boundingRegions |-> <<Region(1, QuadPolygon)>>]>>}

AnalyzeResultSet ==
    {Field(hk, "keyValuePairs", k) @@ Field(ht, "tables", t) @@ Field(hp, "paragraphs", p) :
        hk \in BOOLEAN, ht \in BOOLEAN, hp \in BOOLEAN,
        k \in BackgroundKV, t \in BackgroundTables, p \in BackgroundParagraphs}
    \cup {("keyValuePairs" :> k) @@ Field(h, "tables", t) @@ Field(h, "paragraphs", p) :
        h \in BOOLEAN, k \in KVCollectionSet, t \in BackgroundTables, p \in BackgroundParagraphs}
    \cup {("keyValuePairs" :> k) @@ ("tables" :> t) @@ ("paragraphs" :> p) :
        k \in BackgroundKV, t \in TableCollectionSet, p \in BackgroundParagraphs}
    \cup {("keyValuePairs" :> k) @@ ("tables" :> t) @@ ("paragraphs" :> p) :
        k \in BackgroundKV, t \in BackgroundTables, p \in ParagraphCollectionSet}

JsonSet == {EmptyDict} \cup {[analyzeResult |-> ar] : ar \in AnalyzeResultSet}

-----------------------------------------------------------------------------
(* Document Pipeline: process_pdf and mark_up_document, one step at a time *)

EntrySet == {"process_pdf", "mark_up_document"}

NoOutput == [written |-> FALSE, pages |-> 0, ops |-> <<>>]
NoneValue == [kind |-> "None", pages |-> 0, ops |-> <<>>]
Bytes(out) == [kind |-> "bytes", pages |-> out.pages, ops |-> out.ops]

Running == [status |-> "running", value |-> NoneValue, exc |-> NoExc, cause |-> NoExc]
Returned(v) == [status |-> "returned", value |-> v, exc |-> NoExc, cause |-> NoExc]
Raised(e, cause) == [status |-> "raised", value |-> NoneValue, exc |-> e, cause |-> cause]

ProcessingError == Exc("ValueError", "Error processing PDF")

\* json_data.get('analyzeResult', {}) in process_pdf, json_data['analyzeResult']
\* in mark_up_document
AnalyzeResultOf(e, json) ==
    IF e = "process_pdf"
        THEN [exc |-> NoExc, ar |-> Get(json, "analyzeResult", EmptyDict)]
        ELSE IF "analyzeResult" \in DOMAIN json
             THEN [exc |-> NoExc, ar |-> json["analyzeResult"]]
             ELSE [exc |-> KeyErrorAnalyzeResult, ar |-> EmptyDict]

\* whether the entry point calls generate_distinct_colors for n pairs
CallsGenerator(e, n) == e = "process_pdf" \/ n > 0

Init ==
    /\ entry \in EntrySet
    /\ pdf_valid \in BOOLEAN
    /\ page_count \in 1..MaxPages
    /\ json_data \in JsonSet
    /\ pc = "start"
    /\ doc_open = FALSE
    /\ kv_pairs = <<>>
    /\ colors = <<>>
    /\ gen_calls = <<>>
    /\ page_num = 0
    /\ drawn = <<>>
    /\ pending = NoExc
    /\ output = NoOutput
    /\ result = Running
    /\ polygon = <<>>
    /\ rect = NoRect

\* doc = fitz.open(...)
Open ==
    /\ pc = "start"
    /\ IF pdf_valid
         THEN doc_open' = TRUE /\ pc' = "colors" /\ UNCHANGED pending
         ELSE pending' = FileDataError /\ pc' = "except" /\ UNCHANGED doc_open
    /\ UNCHANGED <<entry, pdf_valid, page_count, json_data, kv_pairs, colors,
                   gen_calls, page_num, drawn, output, result, geomVars>>

\* kv_pairs = ...; colors = ...
AssignColors ==
    /\ pc = "colors"
    /\ LET a == AnalyzeResultOf(entry, json_data)
           kvp == Get(a.ar, "keyValuePairs", <<>>)
           g == generate_distinct_colors(Len(kvp))
       IN  IF a.exc # NoExc
             THEN /\ pending' = a.exc /\ pc' = "except"
                  /\ UNCHANGED <<kv_pairs, colors, gen_calls>>
           ELSE IF ~CallsGenerator(entry, Len(kvp))
             THEN /\ kv_pairs' = kvp /\ colors' = <<>> /\ pc' = "kv"
                  /\ UNCHANGED <<pending, gen_calls>>
           ELSE IF g.exc # NoExc
             THEN /\ kv_pairs' = kvp /\ gen_calls' = Append(gen_calls, Len(kvp))
                  /\ pending' = g.exc /\ pc' = "except"
                  /\ UNCHANGED colors
           ELSE /\ kv_pairs' = kvp /\ gen_calls' = Append(gen_calls, Len(kvp))
                /\ colors' \in g.outs /\ pc' = "kv"
                /\ UNCHANGED pending
    /\ UNCHANGED <<entry, pdf_valid, page_count, json_data, doc_open, page_num,
                   drawn, output, result, geomVars>>

\* one section of the page loop's body
Section(res, next) ==
    /\ drawn' = drawn \o res.ops
    /\ IF res.exc # NoExc
         THEN pending' = res.exc /\ pc' = "except"
         ELSE pc' = next /\ UNCHANGED pending

DrawKeyValuePairs ==
    /\ pc = "kv"
    /\ Section(KeyValueOps(entry, colors, kv_pairs, page_num), "tables")
    /\ UNCHANGED <<entry, pdf_valid, page_count, json_data, doc_open, kv_pairs,
                   colors, gen_calls, page_num, output, result, geomVars>>

DrawTables ==
    /\ pc = "tables"
    /\ Section(TablesOps(AnalyzeResultOf(entry, json_data).ar, page_num), "paragraphs")
    /\ UNCHANGED <<entry, pdf_valid, page_count, json_data, doc_open, kv_pairs,
                   colors, gen_calls, page_num, output, result, geomVars>>

\* the paragraphs of the page, then the next iteration of range(doc.page_count)
DrawParagraphs ==
    /\ pc = "paragraphs"
    /\ LET res == ParagraphsOps(AnalyzeResultOf(entry, json_data).ar, page_num)
       IN  IF res.exc = NoExc /\ page_num + 1 < page_count
             THEN /\ Section(res, "kv") /\ page_num' = page_num + 1
             ELSE /\ Section(res, "save") /\ UNCHANGED page_num
    /\ UNCHANGED <<entry, pdf_valid, page_count, json_data, doc_open, kv_pairs,
                   colors, gen_calls, output, result, geomVars>>

\* doc.save(...): it writes the document or raises
Save ==
    /\ pc = "save"
    /\ \E ok \in BOOLEAN :
         IF ok
           THEN /\ output' = [written |-> TRUE, pages |-> page_count, ops |-> drawn]
                /\ pc' = "close" /\ UNCHANGED pending
           ELSE /\ pending' = SaveError /\ pc' = "except" /\ UNCHANGED output
    /\ UNCHANGED <<entry, pdf_valid, page_count, json_data, doc_open, kv_pairs,
                   colors, gen_calls, page_num, drawn, result, geomVars>>

\* doc.close()
Close ==
    /\ pc = "close"
    /\ doc_open' = FALSE
    /\ pc' = "return"
    /\ UNCHANGED <<entry, pdf_valid, page_count, json_data, kv_pairs, colors,
                   gen_calls, page_num, drawn, pending, output, result, geomVars>>

\* return output.getvalue() in process_pdf; mark_up_document returns None
Return ==
    /\ pc = "return"
    /\ result' = Returned(IF entry = "process_pdf" THEN Bytes(output) ELSE NoneValue)
    /\ pc' = "done"
    /\ UNCHANGED <<entry, pdf_valid, page_count, json_data, doc_open, kv_pairs,
                   colors, gen_calls, page_num, drawn, pending, output, geomVars>>

\* except Exception as e: raise ValueError(...) from e in process_pdf, a bare
\* raise in mark_up_document
Except ==
    /\ pc = "except"
    /\ result' = IF entry = "process_pdf"
                   THEN Raised(ProcessingError, pending)
                   ELSE Raised(pending, NoExc)
    /\ pc' = "raised"
    /\ UNCHANGED <<entry, pdf_valid, page_count, json_data, doc_open, kv_pairs,
                   colors, gen_calls, page_num, drawn, pending, output, geomVars>>

Next ==
    \/ Open
    \/ AssignColors
    \/ DrawKeyValuePairs
    \/ DrawTables
    \/ DrawParagraphs
    \/ Save
    \/ Close
    \/ Return
    \/ Except

Spec == Init /\ [][Next]_vars

-----------------------------------------------------------------------------
(* The Geometry Mapper on its own: a polygon, its points put in another     *)
(* order by the caller, and the rectangle computed from it                   *)

CoordSet == (0 - 1)..(MaxCoord - 1)

GeomPolygonSet == UNION {[1..n -> CoordSet] : n \in 0..(2 * MaxPoints)}

\* the polygon with its points i and j exchanged (each x stays with its y)
SwapPoints(poly, i, j) ==
    [k \in 1..Len(poly) |->
        IF k = 2 * i - 1 THEN poly[2 * j - 1]
        ELSE IF k = 2 * i THEN poly[2 * j]
        ELSE IF k = 2 * j - 1 THEN poly[2 * i - 1]
        ELSE IF k = 2 * j THEN poly[2 * i]
        ELSE poly[k]]

InitGeom ==
    /\ entry = "none"
    /\ pdf_valid = FALSE
    /\ page_count = 1
    /\ json_data = EmptyDict
    /\ pc = "idle"
    /\ doc_open = FALSE
    /\ kv_pairs = <<>>
    /\ colors = <<>>
    /\ gen_calls = <<>>
    /\ page_num = 0
    /\ drawn = <<>>
    /\ pending = NoExc
    /\ output = NoOutput
    /\ result = Running
    /\ polygon \in GeomPolygonSet
    /\ rect = NoRect

MapPolygon ==
    /\ pc = "idle"
    /\ rect' = RectOf(polygon)
    /\ UNCHANGED <<pipeVars, polygon>>

ReorderPoints ==
    /\ pc = "idle"
    /\ \E i \in 1..(Len(polygon) \div 2), j \in 1..(Len(polygon) \div 2) :
         /\ i < j
         /\ polygon' = SwapPoints(polygon, i, j)
    /\ UNCHANGED <<pipeVars, rect>>

NextGeom == MapPolygon \/ ReorderPoints

SpecGeom == InitGeom /\ [][NextGeom]_vars

-----------------------------------------------------------------------------
(* Vocabulary of the properties *)

Terminal == pc \in {"done", "raised"}

AnalyzeResult == Get(json_data, "analyzeResult", EmptyDict)
Pairs == Get(AnalyzeResult, "keyValuePairs", <<>>)
Tables == Get(AnalyzeResult, "tables", <<>>)
Paragraphs == Get(AnalyzeResult, "paragraphs", <<>>)

RegionsIn(obj) == Get(obj, "boundingRegions", <<>>)
PartRegions(kv, part) == IF part \in DOMAIN kv THEN RegionsIn(kv[part]) ELSE <<>>
CellsIn(table) == Get(table, "cells", <<>>)

\* every bounding region of the analysis result, named by where it stands
KVSrcs ==
    UNION {UNION {{Src("kv", i, 0, part, j) : j \in 1..Len(PartRegions(Pairs[i], part))} :
                    part \in {"key", "value"}} : i \in 1..Len(Pairs)}
TableSrcs ==
    UNION {UNION {{Src("tables", t, c, "cell", j) :
                      j \in 1..Len(RegionsIn(CellsIn(Tables[t])[c]))} :
                    c \in 1..Len(CellsIn(Tables[t]))} : t \in 1..Len(Tables)}
ParagraphSrcs ==
    UNION {{Src("paragraphs", i, 0, "paragraph", j) : j \in 1..Len(RegionsIn(Paragraphs[i]))} :
             i \in 1..Len(Paragraphs)}
AllSrcs == KVSrcs \cup TableSrcs \cup ParagraphSrcs

SrcRegion(s) ==
    CASE s.sec = "kv" -> PartRegions(Pairs[s.i], s.part)[s.j]
      [] s.sec = "tables" -> RegionsIn(CellsIn(Tables[s.i])[s.c])[s.j]
      [] OTHER -> RegionsIn(Paragraphs[s.i])[s.j]

SrcConfidence(s) == Get(Pairs[s.i], "confidence", Half)

\* the one call that stands for "the region's rectangle was drawn"
Primary(op) ==
    op.kind \in {"key_fill", "value_fill", "header_fill", "cell_border", "paragraph_fill"}

DrawCount(P, s) ==
    Cardinality({k \in 1..Len(drawn) :
                    Primary(drawn[k]) /\ drawn[k].page = P /\ drawn[k].src = s})

\* page P (1-based) has been through the whole loop body
PageCompleted(P) == P =< page_num \/ pc \in {"save", "close", "return", "done"}

SetMin(S) == CHOOSE m \in S : \A x \in S : m =< x
SetMax(S) == CHOOSE m \in S : \A x \in S : m >= x

-----------------------------------------------------------------------------
(* C1: once the source document has been opened it is closed on every exit  *)
(* path, so no run ends with the document still open.                        *)
C1_ClosedOnEveryExit == Terminal => ~doc_open

(* C2: a failed run reaches the caller as the one generic processing error  *)
(* that wraps the underlying cause, and returns no output, whichever entry  *)
(* point ran.                                                                *)
C2_FailureIsGenericError ==
    result.status = "raised" =>
        /\ result.exc = ProcessingError
        /\ result.cause = pending
        /\ result.cause # NoExc
        /\ result.value = NoneValue

(* C3: an absent top-level structure or optional part never makes the run   *)
(* raise and yields no draw; a run on an empty analysis result and a valid  *)
(* document ends normally with no draw at all.                               *)
C3_AbsentPartsTolerated ==
    /\ pending.type # "KeyError"
    /\ \A k \in 1..Len(drawn) : drawn[k].src \in AllSrcs
    /\ (pdf_valid /\ Terminal /\ DOMAIN AnalyzeResult = {})
          => (drawn = <<>> /\ (pc = "done" \/ pending = SaveError))

(* C4: a region's rectangle is drawn on page P if and only if its           *)
(* pageNumber is P: never on another page, never twice, and once the page   *)
(* has been rendered exactly once for every region of that page.            *)
C4_DrawnIffPageMatches ==
    /\ \A k \in 1..Len(drawn) :
          /\ drawn[k].src \in AllSrcs
          /\ SrcRegion(drawn[k].src).pageNumber = drawn[k].page
          /\ drawn[k].page \in 1..page_count
          /\ drawn[k].kind # "confidence_bar" =>
                /\ RectOf(SrcRegion(drawn[k].src).polygon).set
                /\ drawn[k].rect = RectOf(SrcRegion(drawn[k].src).polygon).r
    /\ \A s \in AllSrcs : \A P \in 1..page_count :
          /\ DrawCount(P, s) =< 1
          /\ SrcRegion(s).pageNumber # P => DrawCount(P, s) = 0
          /\ (PageCompleted(P) /\ SrcRegion(s).pageNumber = P) => DrawCount(P, s) = 1

C4_Witness ==
    /\ pc = "done"
    /\ page_count = 2
    /\ \E a \in 1..Len(drawn), b \in 1..Len(drawn) :
          /\ drawn[a].page = 1 /\ drawn[b].page = 2
          /\ Primary(drawn[a]) /\ Primary(drawn[b])
          /\ drawn[a].src.sec = drawn[b].src.sec
          /\ drawn[a].src.i = drawn[b].src.i
          /\ drawn[a].src.c = drawn[b].src.c
          /\ drawn[a].src.part = drawn[b].src.part
          /\ drawn[a].src.j # drawn[b].src.j

-----------------------------------------------------------------------------
SecRank(sec) == CASE sec = "kv" -> 0 [] sec = "tables" -> 1 [] OTHER -> 2
PartRank(part) == IF part = "value" THEN 1 ELSE 0
KindRank(kind) ==
    CASE kind \in {"key_fill", "value_fill", "header_fill", "paragraph_fill"} -> 0
      [] kind \in {"key_border", "value_border", "header_border", "paragraph_border",
                   "cell_border"} -> 1
      [] OTHER -> 2

\* the place of a call in the order the claim fixes: page, section, entity,
\* key before value (cell index for tables), region, call
Rank(op) ==
    <<op.page, SecRank(op.src.sec), op.src.i,
      IF op.src.sec = "kv" THEN PartRank(op.src.part) ELSE op.src.c,
      op.src.j, KindRank(op.kind)>>

RECURSIVE LexLess(_, _, _)
LexLess(a, b, i) ==
    IF i > Len(a) THEN FALSE
    ELSE IF a[i] < b[i] THEN TRUE
    ELSE IF a[i] > b[i] THEN FALSE
    ELSE LexLess(a, b, i + 1)

(* C5: the calls are issued pages ascending, and within a page key-value    *)
(* pairs (input order, key regions before value regions, the bar right      *)
(* after its value's fill and border) before table cells before paragraphs. *)
C5_FixedDrawOrder ==
    /\ \A k \in 1..(Len(drawn) - 1) : LexLess(Rank(drawn[k]), Rank(drawn[k + 1]), 1)
    /\ \A k \in 1..Len(drawn) :
          drawn[k].kind = "value_fill" =>
              /\ k + 2 =< Len(drawn)
              /\ drawn[k + 1].kind = "value_border"
              /\ drawn[k + 2].kind = "confidence_bar"
              /\ drawn[k + 1].src = drawn[k].src
              /\ drawn[k + 2].src = drawn[k].src
              /\ drawn[k + 1].page = drawn[k].page
              /\ drawn[k + 2].page = drawn[k].page

C5_Witness ==
    /\ pc = "done"
    /\ Len(Pairs) = 2
    /\ \E a \in 1..Len(drawn) :
          drawn[a].kind = "key_fill" /\ drawn[a].src.i = 1 /\ drawn[a].page = 1
    /\ \E b \in 1..Len(drawn) :
          drawn[b].kind = "confidence_bar" /\ drawn[b].src.i = 1 /\ drawn[b].page = 1
    /\ \E c \in 1..Len(drawn) :
          drawn[c].kind = "key_fill" /\ drawn[c].src.i = 2 /\ drawn[c].page = 1
    /\ \E d \in 1..Len(drawn) : drawn[d].src.sec = "tables" /\ drawn[d].page = 1
    /\ \E e \in 1..Len(drawn) : drawn[e].src.sec = "paragraphs" /\ drawn[e].page = 1
    /\ \E f \in 1..Len(drawn) : drawn[f].page = 2

-----------------------------------------------------------------------------
(* C6: for a polygon with at least one complete point the rectangle is      *)
(* 72 times the minimum and maximum of its x and of its y coordinates, so   *)
(* x0 <= x1 and y0 <= y1, and it is the same rectangle in whatever order    *)
(* the caller puts the points.                                               *)
C6_BoundingBoxOrderIndependent ==
    (rect # NoRect /\ Len(polygon) >= 2) =>
        LET xs == {polygon[k] : k \in {k \in 1..Len(polygon) : k % 2 = 1}}
            ys == {polygon[k] : k \in {k \in 1..Len(polygon) : k % 2 = 0}}
        IN  /\ rect.set
            /\ rect.exc = NoExc
            /\ rect.r = Rect(72 * SetMin(xs), 72 * SetMin(ys),
                             72 * SetMax(xs), 72 * SetMax(ys))
            /\ rect.r.x0 =< rect.r.x1
            /\ rect.r.y0 =< rect.r.y1

C6_Witness ==
    /\ rect.set
    /\ Len(polygon) >= 6
    /\ polygon[1] > polygon[3]
    /\ polygon[2] < polygon[4]
    /\ polygon[5] > polygon[1]
    /\ rect.r.x0 < rect.r.x1
    /\ rect.r.y0 < rect.r.y1

(* C7: a polygon of fewer than 2 points (none, or exactly one) on a         *)
(* matching page is accepted: it yields a zero-area rectangle and the run   *)
(* goes on without raising.                                                  *)
C7_DegeneratePolygonAccepted ==
    /\ pending # MinEmptyError
    /\ \A s \in AllSrcs :
          (/\ Len(SrcRegion(s).polygon) < 4
           /\ PageCompleted(SrcRegion(s).pageNumber)
           /\ SrcRegion(s).pageNumber =< page_count)
          => \E k \in 1..Len(drawn) :
                /\ drawn[k].src = s
                /\ drawn[k].rect.x0 = drawn[k].rect.x1
                /\ drawn[k].rect.y0 = drawn[k].rect.y1

-----------------------------------------------------------------------------
(* C8 as stated: at confidence exactly 0.5 the bar's colour is              *)
(* (0.0, 1.0, 0.0), the colour of confidence 1.0.                            *)
C8_HalfIsGreen ==
    \A k \in 1..Len(drawn) :
        (drawn[k].kind = "confidence_bar" /\ SrcConfidence(drawn[k].src) = Half)
            => drawn[k].color = <<0, One, 0>>

(* C8 amended: at confidence exactly 0.5 the colour is (1.0, 1.0, 0.0),     *)
(* where the two branches meet; at confidence 1.0 it is (0.0, 1.0, 0.0),    *)
(* another colour.                                                           *)
C8_HalfIsYellow ==
    \A k \in 1..Len(drawn) :
        drawn[k].kind = "confidence_bar" =>
            /\ SrcConfidence(drawn[k].src) = Half => drawn[k].color = <<One, One, 0>>
            /\ SrcConfidence(drawn[k].src) = One => drawn[k].color = <<0, One, 0>>

C8_Witness ==
    \E a \in 1..Len(drawn) :
        /\ drawn[a].kind = "confidence_bar"
        /\ "confidence" \in DOMAIN Pairs[drawn[a].src.i]
        /\ SrcConfidence(drawn[a].src) = Half
        /\ entry = "process_pdf"

-----------------------------------------------------------------------------
(* C9 as stated: the Color Generator is never called with N = 0.            *)
C9_NeverCalledWithZero == \A k \in 1..Len(gen_calls) : gen_calls[k] # 0

(* C9 amended: with no key-value pair the colour assignment is empty and no *)
(* hue is computed, so no division by zero ends the run; mark_up_document   *)
(* does not call the Color Generator, process_pdf calls it with N = 0 and   *)
(* gets the empty list.                                                      *)
C9_EmptyPairsNoHue ==
    Len(Pairs) = 0 =>
        /\ colors = <<>>
        /\ pending # ZeroDivisionError
        /\ \A k \in 1..Len(gen_calls) : entry = "process_pdf" /\ gen_calls[k] = 0
        /\ pc \in {"kv", "tables", "paragraphs", "save", "close", "return", "done"}
              => gen_calls = IF entry = "process_pdf" THEN <<0>> ELSE <<>>

C9_Witness ==
    /\ Len(Pairs) = 0
    /\ "keyValuePairs" \in DOMAIN AnalyzeResult
    /\ entry = "process_pdf"
    /\ pc = "done"
    /\ gen_calls = <<0>>
    /\ Len(drawn) > 0

-----------------------------------------------------------------------------
(* C10: every value rectangle drawn gets exactly one confidence bar, a key  *)
(* rectangle none; the bar of (x0, y0, x1, y1) is (x1+2, y0, x1+4, y1) in   *)
(* the Colorizer's colour of the pair's confidence (0.5 when the pair has   *)
(* none), and a rendered page holds as many bars as value regions of that   *)
(* page.                                                                     *)
C10_OneBarPerValueRectangle ==
    /\ \A k \in 1..Len(drawn) :
          drawn[k].kind = "confidence_bar" =>
              /\ k >= 3
              /\ drawn[k - 1].kind = "value_border"
              /\ drawn[k - 2].kind = "value_fill"
              /\ drawn[k - 1].src = drawn[k].src
              /\ drawn[k - 1].page = drawn[k].page
              /\ drawn[k].src.part = "value"
              /\ drawn[k].rect = Rect(drawn[k - 1].rect.x1 + 2, drawn[k - 1].rect.y0,
                                      drawn[k - 1].rect.x1 + 4, drawn[k - 1].rect.y1)
              /\ drawn[k].color =
                    confidence_to_color(IF "confidence" \in DOMAIN Pairs[drawn[k].src.i]
                                          THEN Pairs[drawn[k].src.i]["confidence"]
                                          ELSE Half)
    /\ \A k \in 1..Len(drawn) :
          drawn[k].kind = "value_border" =>
              (k + 1 =< Len(drawn) /\ drawn[k + 1].kind = "confidence_bar")
    /\ \A P \in 1..page_count :
          PageCompleted(P) =>
              Cardinality({k \in 1..Len(drawn) :
                              drawn[k].kind = "confidence_bar" /\ drawn[k].page = P})
              = Cardinality({s \in KVSrcs :
                              s.part = "value" /\ SrcRegion(s).pageNumber = P})

C10_Witness ==
    /\ pc = "done"
    /\ \E a \in 1..Len(drawn), b \in 1..Len(drawn) :
          /\ drawn[a].kind = "key_border"
          /\ drawn[b].kind = "confidence_bar"
          /\ drawn[a].src.i = drawn[b].src.i
          /\ "confidence" \notin DOMAIN Pairs[drawn[b].src.i]
          /\ drawn[b].rect.y0 < drawn[b].rect.y1

=============================================================================
